---- MODULE Spec2Model ----
(***************************************************************************)
(* Live transcript -> voice pipeline.                                      *)
(*   Buffer Scheduler : AudioStreamer            (lib/audio-streamer)      *)
(*   Channel Router   : useLiveApi               (src/lib/state.ts)        *)
(*   Turn Sequencer   : DatabaseBridge           (components)              *)
(* Time is counted in sample periods of the output device (1/24000 s), so  *)
(* that the duration of a buffer is its number of samples.                 *)
(***************************************************************************)
EXTENDS Integers, Sequences, FiniteSets, TLC

\* ------------------------------------------------------------------ bounds
MaxChunks == 2        \* audio chunks given to the scheduler in one run of SchedSpec
MaxTicks == 5         \* 100 ms steps of the output clock in one run of SchedSpec
MaxAppChunks == 1     \* audio chunks the upstream delivers in one run of Spec
MaxAppTicks == 2      \* 100 ms steps of the output clock in one run of Spec
MaxPushes == 1        \* transcript records processed in one run
MaxLoops == 2         \* consumer-loop invocations that can be suspended at once
MaxOutputs == 1       \* output-transcription events gathered for one segment
MaxSeqPushes == 1     \* transcript records processed in one run of SeqSpec
MaxJumps == 4         \* silent 15 s stretches in one run of SeqSpec
MaxIngest == 3        \* transcript records processed in one run of IngestSpec
MaxTextLen == 5     \* tokens of a text given to a function called on its own
MaxParts == 2       \* parts, chunks or function responses of a client send
MaxPadTimers == 2   \* teardown timers of the pad pending at once
MaxSamples == 15361 \* samples of a chunk given to addPCM16 called on its own

\* ------------------------------------------------------- program constants
sampleRate == 24000
bufferSize == 7680
initialBufferTime == sampleRate \div 10        \* 0.1 s
SCHEDULE_AHEAD_TIME == sampleRate \div 5       \* 0.2 s
CheckInterval == sampleRate \div 10            \* the 100 ms re-arm timer

\* Sample counts a decoded chunk may have: empty, shorter than a buffer,
\* one full buffer and a remainder.
ChunkSizes == {0, CheckInterval, bufferSize + CheckInterval}

\* Chunk size of the upstream's answers in the application: 0.2 s.
AppChunkSizes == {2 * CheckInterval}

Max(a, b) == IF a >= b THEN a ELSE b

VARIABLES
  \* AudioStreamer
  audioQueue,       \* pending buffers, each [id, len]
  isPlaying,
  scheduledTime,
  activeSources,    \* committed sources not yet ended, each [id, start, len]
  checkArmed,       \* the timer checkTimeout refers to is pending
  orphanTimers,     \* pending scheduleNextBuffer timers checkTimeout lost
  staleEnded,       \* sources halted by stop() whose ended event is pending
  now,              \* context.currentTime
  \* useLiveApi
  isAudioPlaying,   \* set by onPlay / onComplete
  \* history
  nextId,           \* buffers appended so far
  chunks,           \* addPCM16 calls so far
  \* GenAILiveClient x 5, useLiveApi
  status,           \* _status of each channel's client
  connected,        \* React state of useLiveApi
  \* DatabaseBridge
  effectConnected,  \* value of `connected` the ingestion effect last ran with
  queueRef,         \* QueueItem[]
  isProcessingRef,
  loops,            \* suspended invocations of processQueueLoop
  voiceStyleRef,
  lastProcessedIdRef,
  paragraphCountRef,
  currentTurnIdRef,
  currentTranslationBufferRef,
  \* history
  nextSid,          \* segments pushed so far; a segment's sid is its push index
  pushes,           \* transcript records processed so far (turns added)
  sentLog,          \* sendToSpeaker calls that returned, in call order
  skippedLog,       \* segments removed without a send, with their scripted text
  turnLog,          \* ids of the records addTurn was called for, in call order
  pushLog,          \* every item pushed onto the queue, in push order
  insertLog,        \* inserts into `translations`, in call order
  \* a function of the program called on its own
  arg,              \* the arguments of the call
  ret,              \* <<>> before the call returns, then <<result>>
  \* AudioStreamer, ambient pad
  padGain,          \* padGain is not null
  padFilter,        \* padFilter is not null
  padOscillators,   \* length of padOscillators
  padRamp,          \* target of the last ramp of padGain.gain, in hundredths
  padTimers,        \* pending teardown timers of stopPad
  \* upstream
  audioLog,         \* sids of the segments whose audio was enqueued
  \* UI sink
  lastUpdate,       \* arguments of the last updateTurn call
  \* GenAILiveClient of each channel
  clientSession,    \* session is not undefined
  attempt,          \* the live.connect call a connect() is awaiting, if any
  closed,           \* disconnect() has returned and connect() was not called since
  \* history of the pad
  lastPadCommand    \* the pad method called last

schedVars == <<audioQueue, isPlaying, scheduledTime, activeSources, checkArmed,
               orphanTimers, staleEnded, now, isAudioPlaying, nextId, chunks>>

seqVars == <<status, connected, effectConnected, queueRef, isProcessingRef, loops,
             voiceStyleRef, lastProcessedIdRef, paragraphCountRef,
             currentTurnIdRef, currentTranslationBufferRef, nextSid, pushes, turnLog, pushLog,
             sentLog, insertLog, skippedLog>>

fnVars == <<arg, ret>>

padVars == <<padGain, padFilter, padOscillators, padRamp, padTimers>>

clientVars == <<clientSession, attempt, closed>>

otherVars == <<audioLog, lastUpdate, clientVars, lastPadCommand>>

vars == <<schedVars, seqVars, fnVars, padVars, otherVars>>

\* ------------------------------------------------------------- telemetry
\* A duration read straight off the two clocks, without the Idle test and
\* without the clamp at 0.
durationRaw == scheduledTime - now

\* get duration()
duration == IF ~isPlaying THEN 0 ELSE Max(0, scheduledTime - now)

\* get endOfQueueTime()
endOfQueueTime == scheduledTime

\* getAudioStreamerState(): `x || 0` maps 0 to 0
getAudioStreamerState == [duration |-> duration, endOfQueueTime |-> endOfQueueTime]

\* ------------------------------------------------------------- addPCM16
\* A split that keeps the full buffers only.
RECURSIVE SplitFull(_, _)
SplitFull(n, id) ==
  IF n >= bufferSize
    THEN <<[id |-> id, len |-> bufferSize]>> \o SplitFull(n - bufferSize, id + 1)
    ELSE <<>>

\* The buffers a chunk of n samples is cut into, in sample order.
RECURSIVE SplitChunk(_, _)
SplitChunk(n, id) ==
  IF n >= bufferSize
    THEN <<[id |-> id, len |-> bufferSize]>> \o SplitChunk(n - bufferSize, id + 1)
    ELSE IF n > 0 THEN <<[id |-> id, len |-> n]>> ELSE <<>>

\* A start at the end of the schedule, wherever the clock is.
StartAtSchedule(st, t) == st

\* Start time of the next committed source.
StartTime(st, t) == Max(st, t)

\* The while loop of scheduleNextBuffer: commits front buffers while the
\* look-ahead window is not full.
RECURSIVE SchedulePass(_, _, _)
SchedulePass(q, st, act) ==
  IF Len(q) > 0 /\ st < now + SCHEDULE_AHEAD_TIME
    THEN LET b == Head(q)
             startTime == StartTime(st, now)
             source == [id |-> b.id, start |-> startTime, len |-> b.len]
         IN SchedulePass(Tail(q), startTime + b.len, act \cup {source})
    ELSE [q |-> q, st |-> st, act |-> act]

\* scheduleNextBuffer() run on queue q and clock st while playing; `armed`
\* and `orph` are the timers pending when it starts.
ScheduleNextBuffer(q, st, armed, orph) ==
  LET r == SchedulePass(q, st, activeSources)
      rearm == Len(r.q) > 0 \/ r.act # {}
  IN /\ audioQueue' = r.q
     /\ scheduledTime' = r.st
     /\ activeSources' = r.act
     /\ checkArmed' = (armed \/ rearm)
     /\ orphanTimers' = IF armed /\ rearm THEN orph + 1 ELSE orph

\* Reset of scheduledTime when playback starts.
AnchorTime(st, t) == IF st < t THEN t + initialBufferTime ELSE st

AddPCM16(n) ==
  /\ chunks' = chunks + 1
  /\ LET bufs == SplitChunk(n, nextId)
         q == audioQueue \o bufs
     IN /\ nextId' = nextId + Len(bufs)
        /\ IF ~isPlaying
             THEN /\ isPlaying' = TRUE
                  /\ isAudioPlaying' = TRUE
                  /\ ScheduleNextBuffer(q, AnchorTime(scheduledTime, now),
                                        checkArmed, orphanTimers)
             ELSE /\ audioQueue' = q
                  /\ UNCHANGED <<isPlaying, isAudioPlaying, scheduledTime,
                                 activeSources, checkArmed, orphanTimers>>
  /\ UNCHANGED <<staleEnded, now>>

\* onAudio of any of the five clients, with a chunk of one of the sizes
OnAudio(sizes, limit) ==
  /\ chunks < limit
  /\ \E n \in sizes : AddPCM16(n)

\* ------------------------------------------------------ scheduling timer
\* The timer checkTimeout refers to fires.
CheckTimerFires ==
  /\ checkArmed
  /\ IF isPlaying
       THEN ScheduleNextBuffer(audioQueue, scheduledTime, FALSE, orphanTimers)
       ELSE /\ checkArmed' = FALSE
            /\ UNCHANGED <<audioQueue, scheduledTime, activeSources,
                           orphanTimers>>
  /\ UNCHANGED <<isPlaying, staleEnded, now, isAudioPlaying, nextId, chunks>>

\* A timer whose handle was overwritten fires.
OrphanTimerFires ==
  /\ orphanTimers > 0
  /\ IF isPlaying
       THEN ScheduleNextBuffer(audioQueue, scheduledTime, checkArmed,
                               orphanTimers - 1)
       ELSE /\ orphanTimers' = orphanTimers - 1
            /\ UNCHANGED <<audioQueue, scheduledTime, activeSources,
                           checkArmed>>
  /\ UNCHANGED <<isPlaying, staleEnded, now, isAudioPlaying, nextId, chunks>>

\* The callback of a timer: of the one the handle tracks, or of one that an
\* overwritten handle has left running.
TimerFires(tracked) == IF tracked THEN CheckTimerFires ELSE OrphanTimerFires

\* ------------------------------------------------------------- onended
\* The test of the completion callback.
TrulyEmpty(act, q) == act = {} /\ Len(q) = 0

OnEnded ==
  \E s \in activeSources :
    /\ now >= s.start + s.len
    /\ activeSources' = activeSources \ {s}
    /\ IF TrulyEmpty(activeSources \ {s}, audioQueue)
         THEN /\ isPlaying' = FALSE
              /\ isAudioPlaying' = FALSE
         ELSE UNCHANGED <<isPlaying, isAudioPlaying>>
    /\ UNCHANGED <<audioQueue, scheduledTime, checkArmed, orphanTimers,
                   staleEnded, now, nextId, chunks>>

\* The ended event of a source that stop() halted and removed.
OnEndedStopped ==
  /\ staleEnded > 0
  /\ staleEnded' = staleEnded - 1
  /\ IF TrulyEmpty(activeSources, audioQueue)
       THEN /\ isPlaying' = FALSE
            /\ isAudioPlaying' = FALSE
       ELSE UNCHANGED <<isPlaying, isAudioPlaying>>
  /\ UNCHANGED <<audioQueue, scheduledTime, activeSources, checkArmed,
                 orphanTimers, now, nextId, chunks>>

\* ----------------------------------------------------- stop / resume / complete
\* A stop that keeps the pending buffers.
KeepQueue(q) == q

\* What stop() leaves of the pending queue.
StopQueue(q) == <<>>

Stop ==
  /\ isPlaying' = FALSE
  /\ checkArmed' = FALSE
  /\ audioQueue' = StopQueue(audioQueue)
  /\ staleEnded' = staleEnded + Cardinality(activeSources)
  /\ activeSources' = {}
  /\ scheduledTime' = now
  /\ isAudioPlaying' = FALSE
  /\ UNCHANGED <<orphanTimers, now, nextId, chunks>>

\* The value resume() gives scheduledTime.
ResumeTime(st, t) == t + initialBufferTime

Resume ==
  /\ scheduledTime' = ResumeTime(scheduledTime, now)
  /\ UNCHANGED <<audioQueue, isPlaying, activeSources, checkArmed, orphanTimers,
                 staleEnded, now, isAudioPlaying, nextId, chunks>>

Complete ==
  /\ isPlaying' = FALSE
  /\ checkArmed' = FALSE
  /\ isAudioPlaying' = FALSE
  /\ UNCHANGED <<audioQueue, scheduledTime, activeSources, orphanTimers,
                 staleEnded, now, nextId, chunks>>

\* ------------------------------------------------------------ output clock
Advance(limit) ==
  /\ now < limit * CheckInterval
  /\ now' = now + CheckInterval
  /\ UNCHANGED <<audioQueue, isPlaying, scheduledTime, activeSources, checkArmed,
                 orphanTimers, staleEnded, isAudioPlaying, nextId, chunks>>

\* ------------------------------------------------------------------ text
\* A text is a sequence of tokens: words, the speaker prefixes, stage
\* directions, and the whitespace tokens " " and "\n".
NL == "\n"
IsSpace(t) == t \in {" ", NL}

RECURSIVE TrimStart(_)
TrimStart(t) ==
  IF t # <<>> /\ IsSpace(Head(t)) THEN TrimStart(Tail(t)) ELSE t

RECURSIVE TrimEnd(_)
TrimEnd(t) ==
  IF t # <<>> /\ IsSpace(t[Len(t)]) THEN TrimEnd(SubSeq(t, 1, Len(t) - 1)) ELSE t

\* String.prototype.trim
Trim(t) == TrimEnd(TrimStart(t))

RECURSIVE DropNewlines(_)
DropNewlines(t) ==
  IF t # <<>> /\ Head(t) = NL THEN DropNewlines(Tail(t)) ELSE t

\* text.split(/\r?\n+/): the pieces between maximal runs of newlines
RECURSIVE SplitLines(_, _)
SplitLines(t, cur) ==
  IF t = <<>> THEN <<cur>>
  ELSE IF Head(t) = NL
         THEN <<cur>> \o SplitLines(DropNewlines(Tail(t)), <<>>)
         ELSE SplitLines(Tail(t), Append(cur, Head(t)))

\* A map that leaves the pieces as they are.
MapKeep(ss) == ss

MapTrim(ss) == [i \in 1..Len(ss) |-> Trim(ss[i])]
NonEmpty(t) == Len(t) > 0

segmentText(text) ==
  IF text = <<>> THEN <<>>
  ELSE SelectSeq(MapTrim(SplitLines(text, <<>>)), NonEmpty)

\* rawText.replace(prefix, ''): removes the first occurrence
RECURSIVE RemoveFirst(_, _)
RemoveFirst(t, tok) ==
  IF t = <<>> THEN <<>>
  ELSE IF Head(t) = tok THEN Tail(t)
       ELSE <<Head(t)>> \o RemoveFirst(Tail(t), tok)

StartsWith(t, tok) == t # <<>> /\ Head(t) = tok

Channels == {"default", "Male 1", "Male 2", "Female 1", "Female 2"}

\* A detection that finds no speaker.
DetectNone(rawText) == [speaker |-> "default", text |-> rawText]

\* Speaker detection of processQueueLoop: [speaker, textToSend]
DetectSpeaker(rawText) ==
  IF StartsWith(rawText, "Male 1:")
    THEN [speaker |-> "Male 1", text |-> Trim(RemoveFirst(rawText, "Male 1:"))]
  ELSE IF StartsWith(rawText, "Male 2:")
    THEN [speaker |-> "Male 2", text |-> Trim(RemoveFirst(rawText, "Male 2:"))]
  ELSE IF StartsWith(rawText, "Female 1:")
    THEN [speaker |-> "Female 1", text |-> Trim(RemoveFirst(rawText, "Female 1:"))]
  ELSE IF StartsWith(rawText, "Female 2:")
    THEN [speaker |-> "Female 2", text |-> Trim(RemoveFirst(rawText, "Female 2:"))]
  ELSE [speaker |-> "default", text |-> rawText]

Filler == <<"(clears throat)">>

\* The voice-style switch of processQueueLoop
ApplyStyle(style, textToSend) ==
  IF textToSend = Filler THEN textToSend
  ELSE CASE style = "breathy" ->
              <<"(soft inhale)", " ">> \o textToSend \o <<" ", "...", " ", "(pause)">>
         [] style = "dramatic" ->
              <<"(slowly)", " ">> \o textToSend \o <<" ", "...", " ", "(long pause)">>
         [] style = "enthusiastic" -> <<"(excitedly)", " ">> \o textToSend
         [] style = "formal" -> <<"(professionally)", " ">> \o textToSend
         [] style = "conversational" -> <<"(casually)", " ">> \o textToSend
         [] OTHER -> textToSend

\* !scriptedText || !scriptedText.trim()
IsBlank(scriptedText) == scriptedText = <<>> \/ Trim(scriptedText) = <<>>

\* Styles the settings take in a run: one that adds no stage directions and
\* one that wraps the text.
VoiceStyles == {"natural", "breathy"}

\* Transcript records the source delivers.
Transcripts ==
  { [id |-> 1, text |-> <<"Hello", NL, NL, "Male 1:", " ", "go", NL>>],
    [id |-> 2, text |-> <<"Male 2:", NL, NL, "go", " ", "now">>] }

\* ------------------------------------------------------- processQueueLoop
ArrivalDelta == sampleRate \div 10             \* endOfQueueTime growth of 0.1 s
ArrivalTimeout == 15 * sampleRate              \* 15000 ms
PipelineThreshold == sampleRate \div 5         \* duration < 0.2 s

NoLoop == [pc |-> "none"]
FreeSlots == {l \in 1..MaxLoops : loops[l].pc = "none"}
Running == {l \in 1..MaxLoops : loops[l].pc # "none"}

\* A removal at the wrong end of the queue.
ShiftLast(q) == SubSeq(q, 1, Len(q) - 1)

\* A removal that puts the segment back at the end of the queue.
Requeue(q) == Tail(q) \o <<Head(q)>>

\* queueRef.current.shift()
Shift(q) == Tail(q)

\* A check that lets every iteration through.
AlwaysConnected(st) == FALSE

\* The safety check at the top of an iteration: client.status !== 'connected'
NotConnected(st) == st # "connected"

\* The entry sendToSpeaker leaves in the log of sends: the client of the
\* target channel transmits the text only if it is connected.
SendRecord(item, speaker, scriptedText) ==
  [sid |-> item.sid, channel |-> speaker,
   delivered |-> status[speaker] = "connected"]

\* The synchronous run of the while loop from its top to the first await
\* (res = "await": a segment was sent), to the end of the queue ("exit"),
\* to the status check failing ("abort"), or to a send that throws ("throw").
RECURSIVE LoopBody(_, _)
LoopBody(S, thr) ==
  IF Len(S.q) = 0 THEN [S EXCEPT !.res = "exit", !.flag = FALSE]
  ELSE IF NotConnected(status["default"])
    THEN [S EXCEPT !.res = "abort", !.flag = FALSE]
  ELSE
    LET item == S.q[1]
        d == DetectSpeaker(item.text)
        scriptedText == ApplyStyle(voiceStyleRef, d.text)
        S1 == [S EXCEPT !.turn = item.turnId]
    IN IF IsBlank(scriptedText)
         THEN LoopBody([S1 EXCEPT !.q = Shift(S.q),
                                  !.skipped = @ \cup {[sid |-> item.sid,
                                                       text |-> scriptedText]}],
                       thr)
       ELSE IF thr /\ status[d.speaker] = "connected"
         THEN [S1 EXCEPT !.buf = <<>>, !.res = "throw", !.flag = FALSE]
       ELSE [S1 EXCEPT !.buf = <<>>,
                       !.sent = Append(@, SendRecord(item, d.speaker, scriptedText)),
                       !.q = Shift(S.q),
                       !.item = item,
                       !.res = "await"]

\* The refs as the loop finds them; `flag` is isProcessingRef at that moment.
LoopState(q, turn, flag) ==
  [q |-> q, sent |-> sentLog, skipped |-> skippedLog, turn |-> turn,
   buf |-> currentTranslationBufferRef, flag |-> flag, res |-> "run",
   item |-> <<>>]

\* Writes the outcome of a run of loop l back to the refs.
Commit(S, l) ==
  /\ queueRef' = S.q
  /\ sentLog' = S.sent
  /\ skippedLog' = S.skipped
  /\ currentTurnIdRef' = S.turn
  /\ currentTranslationBufferRef' = S.buf
  /\ isProcessingRef' = S.flag
  /\ loops' = [loops EXCEPT ![l] =
                 IF S.res = "await"
                   THEN [pc |-> "arrival", item |-> S.item,
                         pre |-> getAudioStreamerState.endOfQueueTime,
                         waitStart |-> now]
                   ELSE NoLoop]
  /\ UNCHANGED insertLog

\* The guard of processQueueLoop.
GuardPasses(flag) == ~flag

\* processQueueLoop() called with the queue q and the flag as given.
ProcessQueueLoop(q, flag) ==
  IF GuardPasses(flag)
    THEN /\ FreeSlots # {}
         /\ \E thr \in BOOLEAN :
              LET l == CHOOSE x \in FreeSlots : \A y \in FreeSlots : x <= y
                 IN Commit(LoopBody(LoopState(q, currentTurnIdRef, TRUE), thr), l)
    ELSE /\ queueRef' = q
         /\ isProcessingRef' = flag
         /\ UNCHANGED <<loops, sentLog, insertLog, skippedLog, currentTurnIdRef,
                        currentTranslationBufferRef>>

\* Loop l goes on after its pipelining wait and the save: clears the turn
\* ref and runs the while loop from its top.
ContinueLoop(l) ==
  \E thr \in BOOLEAN :
    Commit(LoopBody(LoopState(queueRef, 0, isProcessingRef), thr), l)

\* A save for every segment that has a translation.
SaveAnyItem(item, buf) == Len(Trim(buf)) > 0

\* item.refData && currentTranslationBufferRef.current.trim().length > 0
ShouldSave(item, buf) == item.refData # 0 /\ Len(Trim(buf)) > 0

\* Step 4 of the loop: the insert is called and awaited only for a segment
\* with record data and a non-empty translation buffer.
AfterPipeline(l) ==
  IF ShouldSave(loops[l].item, currentTranslationBufferRef)
    THEN /\ loops' = [loops EXCEPT ![l] = [pc |-> "save", item |-> loops[l].item]]
         /\ insertLog' = Append(insertLog,
                                [sid |-> loops[l].item.sid,
                                 translated_text |-> Trim(currentTranslationBufferRef)])
         /\ UNCHANGED <<queueRef, sentLog, skippedLog, currentTurnIdRef,
                        currentTranslationBufferRef, isProcessingRef>>
    ELSE ContinueLoop(l)

\* A pipelining wait that any reading ends.
PipelineOpen(st) == TRUE

\* The test of the pipelining wait.
PipelineDone(st) == st.duration < PipelineThreshold

\* The loop ends where it stands.
StopLoop(l) ==
  /\ loops' = [loops EXCEPT ![l] = NoLoop]
  /\ isProcessingRef' = FALSE
  /\ UNCHANGED <<queueRef, sentLog, insertLog, skippedLog, currentTurnIdRef,
                 currentTranslationBufferRef>>

\* First test of the pipelining wait, reached from the arrival wait.
PipelineCheck(l) ==
  IF PipelineDone(getAudioStreamerState)
    THEN AfterPipeline(l)
    ELSE /\ loops' = [loops EXCEPT ![l] =
                         [pc |-> "pipeline", item |-> loops[l].item]]
         /\ UNCHANGED <<queueRef, sentLog, insertLog, skippedLog, currentTurnIdRef,
                        currentTranslationBufferRef, isProcessingRef>>

seqRest == <<status, connected, effectConnected, voiceStyleRef, lastProcessedIdRef,
             paragraphCountRef, nextSid, pushes, turnLog, pushLog>>

\* A poll of the arrival wait that ends it: audio arrived, or 15 s passed.
ArrivalPoll(l) ==
  /\ loops[l].pc = "arrival"
  /\ \/ ~(now - loops[l].waitStart < ArrivalTimeout)
     \/ getAudioStreamerState.endOfQueueTime > loops[l].pre + ArrivalDelta
  /\ PipelineCheck(l)
  /\ UNCHANGED seqRest
  /\ UNCHANGED schedVars

\* A poll of the pipelining wait that ends it.
PipelinePoll(l) ==
  /\ loops[l].pc = "pipeline"
  /\ PipelineDone(getAudioStreamerState)
  /\ AfterPipeline(l)
  /\ UNCHANGED seqRest
  /\ UNCHANGED schedVars

\* An insert whose failure ends the loop.
StopsOnFailure(ok) == ~ok

\* Whether the outcome of the insert ends the loop: the catch around the
\* insert logs the error and the loop goes on.
InsertStops(ok) == FALSE

\* The awaited insert of loop l settles: fulfilled (ok) or rejected.
InsertSettles(l, ok) ==
  /\ loops[l].pc = "save"
  /\ IF InsertStops(ok)
       THEN /\ loops' = [loops EXCEPT ![l] = NoLoop]
            /\ isProcessingRef' = FALSE
            /\ UNCHANGED <<queueRef, sentLog, insertLog, skippedLog,
                           currentTurnIdRef, currentTranslationBufferRef>>
       ELSE ContinueLoop(l)
  /\ UNCHANGED seqRest
  /\ UNCHANGED schedVars

SaveDone(l) == \E ok \in BOOLEAN : InsertSettles(l, ok)

\* --------------------------------------------------------- processNewData
\* A filler after every paragraph.
FillerAlways(count) == count > 0

\* The filler rule of the forEach of processNewData.
FillerDue(count) == count > 0 /\ count % 3 = 0

\* segments.forEach: pushes each segment and, after every third paragraph
\* of the session, the filler. Returns the queue, the counter and the next sid.
RECURSIVE PushSegments(_, _, _, _, _)
PushSegments(segs, q, count, sid, data) ==
  IF segs = <<>> THEN [q |-> q, count |-> count, sid |-> sid]
  ELSE LET q1 == Append(q, [sid |-> sid, text |-> Head(segs),
                            refData |-> data.id, turnId |-> data.turn])
           c1 == count + 1
       IN IF FillerDue(c1)
            THEN PushSegments(Tail(segs),
                              Append(q1, [sid |-> sid + 1, text |-> Filler,
                                          refData |-> 0, turnId |-> data.turn]),
                              c1, sid + 2, data)
            ELSE PushSegments(Tail(segs), q1, c1, sid + 1, data)

\* A test that takes every record for a new one.
NeverRepeat(last, id) == FALSE

\* lastProcessedIdRef.current === data.id
IsRepeat(last, id) == last = id

\* processNewData(data), called by the poll (fetchLatest) and by the
\* realtime subscription of the effect run that is in force.
ProcessNewData(data) ==
  /\ effectConnected
  /\ IF data.text = <<>> \/ IsRepeat(lastProcessedIdRef, data.id)
       THEN UNCHANGED <<lastProcessedIdRef, paragraphCountRef, nextSid, pushes,
                        turnLog, pushLog, queueRef,
                        isProcessingRef, loops, sentLog, insertLog, skippedLog,
                        currentTurnIdRef, currentTranslationBufferRef>>
       ELSE LET segments == segmentText(data.text)
                r == PushSegments(segments, queueRef, paragraphCountRef, nextSid,
                                  [id |-> data.id, turn |-> pushes + 1])
            IN /\ lastProcessedIdRef' = data.id
               /\ pushes' = pushes + 1
               /\ turnLog' = Append(turnLog, data.id)
               /\ pushLog' = pushLog \o SubSeq(r.q, Len(queueRef) + 1, Len(r.q))
               /\ paragraphCountRef' = r.count
               /\ nextSid' = r.sid
               /\ IF Len(segments) > 0
                    THEN ProcessQueueLoop(r.q, isProcessingRef)
                    ELSE UNCHANGED <<queueRef, isProcessingRef, loops, sentLog, insertLog,
                                     skippedLog, currentTurnIdRef,
                                     currentTranslationBufferRef>>
  /\ UNCHANGED <<status, connected, effectConnected, voiceStyleRef>>
  /\ UNCHANGED schedVars

OnTranscript ==
  /\ pushes < MaxPushes
  /\ \E data \in Transcripts : ProcessNewData(data)

\* ------------------------------------------------------- ingestion effect
\* The value the effect gives isProcessingRef when it runs.
EffectFlag(flag) == FALSE

\* React runs the effect again when `connected` changed.
EffectRun ==
  /\ connected # effectConnected
  /\ effectConnected' = connected
  /\ IF connected /\ Len(queueRef) > 0
       THEN ProcessQueueLoop(queueRef, EffectFlag(isProcessingRef))
       ELSE /\ isProcessingRef' = EffectFlag(isProcessingRef)
            /\ UNCHANGED <<queueRef, loops, sentLog, insertLog, skippedLog, currentTurnIdRef,
                           currentTranslationBufferRef>>
  /\ UNCHANGED <<status, connected, voiceStyleRef, lastProcessedIdRef,
                 paragraphCountRef, nextSid, pushes, turnLog, pushLog>>
  /\ UNCHANGED schedVars

\* useEffect on voiceStyle
SetVoiceStyle ==
  \E s \in VoiceStyles :
    /\ s # voiceStyleRef
    /\ voiceStyleRef' = s
    /\ UNCHANGED <<status, connected, effectConnected, queueRef, isProcessingRef,
                   loops, lastProcessedIdRef, paragraphCountRef, currentTurnIdRef,
                   currentTranslationBufferRef, nextSid, pushes, turnLog, pushLog, sentLog, insertLog,
                   skippedLog>>
    /\ UNCHANGED schedVars

\* The output listener of DatabaseBridge: a transcription event of the
\* upstream, answering a delivered segment, is appended to the buffer, and
\* the buffer is set as the translation of the current turn, if there is
\* one. The text of the event is the token naming the segment it answers.
OnOutputTranscription ==
  /\ Len(currentTranslationBufferRef) < MaxOutputs
  /\ \E i \in 1..Len(sentLog) :
       /\ sentLog[i].delivered
       /\ currentTranslationBufferRef' =
            Append(currentTranslationBufferRef, ToString(sentLog[i].sid))
  /\ lastUpdate' =
       IF currentTurnIdRef # 0
         THEN [id |-> currentTurnIdRef, translation |-> currentTranslationBufferRef']
         ELSE lastUpdate
  /\ UNCHANGED <<status, connected, effectConnected, queueRef, isProcessingRef,
                 loops, voiceStyleRef, lastProcessedIdRef, paragraphCountRef,
                 currentTurnIdRef, nextSid, pushes, turnLog, pushLog, sentLog, insertLog, skippedLog>>
  /\ UNCHANGED schedVars

\* ------------------------------------------------------------ useLiveApi
\* Sets of channels whose connect fails: none, one named speaker, all.
ConnectFailures == {{}, {"Male 1"}, Channels}

\* connect() of useLiveApi: disconnects all, resumes the streamer, connects
\* all; onOpen of the default client sets `connected`.
Connect ==
  /\ ~connected
  /\ \E F \in ConnectFailures :
       /\ status' = [c \in Channels |->
                       IF c \in F THEN "disconnected" ELSE "connected"]
       /\ connected' = ("default" \notin F)
  /\ Resume
  /\ UNCHANGED <<effectConnected, queueRef, isProcessingRef, loops, voiceStyleRef,
                 lastProcessedIdRef, paragraphCountRef, currentTurnIdRef,
                 currentTranslationBufferRef, nextSid, pushes, turnLog, pushLog, sentLog, insertLog,
                 skippedLog>>

\* disconnect() of useLiveApi
Disconnect ==
  /\ connected
  /\ status' = [c \in Channels |-> "disconnected"]
  /\ connected' = FALSE
  /\ UNCHANGED <<effectConnected, queueRef, isProcessingRef, loops, voiceStyleRef,
                 lastProcessedIdRef, paragraphCountRef, currentTurnIdRef,
                 currentTranslationBufferRef, nextSid, pushes, turnLog, pushLog, sentLog, insertLog,
                 skippedLog>>
  /\ UNCHANGED schedVars

\* The 'interrupted' event of the default client stops the streamer; the
\* upstream raises it while it answers a text of that client.
Interrupted ==
  /\ status["default"] = "connected"
  /\ \E i \in 1..Len(sentLog) :
       sentLog[i].channel = "default" /\ sentLog[i].delivered
  /\ Stop
  /\ UNCHANGED seqVars

\* Audio arrives from a connected channel.
AudioArrives ==
  /\ \E c \in Channels : status[c] = "connected"
  /\ OnAudio(AppChunkSizes, MaxAppChunks)
  /\ UNCHANGED seqVars

\* ---------------------------------------------------------- specifications
SchedInit ==
  /\ audioQueue = <<>>
  /\ isPlaying = FALSE
  /\ scheduledTime = 0
  /\ activeSources = {}
  /\ checkArmed = FALSE
  /\ orphanTimers = 0
  /\ staleEnded = 0
  /\ now = 0
  /\ isAudioPlaying = FALSE
  /\ nextId = 0
  /\ chunks = 0

SeqInit ==
  /\ status = [c \in Channels |-> "disconnected"]
  /\ connected = FALSE
  /\ effectConnected = FALSE
  /\ queueRef = <<>>
  /\ isProcessingRef = FALSE
  /\ loops = [l \in 1..MaxLoops |-> NoLoop]
  /\ voiceStyleRef = "breathy"
  /\ lastProcessedIdRef = 0
  /\ paragraphCountRef = 0
  /\ currentTurnIdRef = 0
  /\ currentTranslationBufferRef = <<>>
  /\ nextSid = 0
  /\ pushes = 0
  /\ sentLog = <<>>
  /\ skippedLog = {}
  /\ turnLog = <<>>
  /\ pushLog = <<>>
  /\ insertLog = <<>>

\* No function is called on its own in a run of the application.
FnIdle == arg = <<>> /\ ret = <<>>

\* No pad: backgroundPadEnabled is false until the setting is changed.
PadInit ==
  /\ padGain = FALSE
  /\ padFilter = FALSE
  /\ padOscillators = 0
  /\ padRamp = 0
  /\ padTimers = 0

\* Nothing was sent, so the upstream has answered nothing and no turn
\* was updated; the clients are as constructed and no pad method was called.
OtherInit ==
  /\ audioLog = {}
  /\ lastUpdate = [id |-> 0, translation |-> <<>>]
  /\ clientSession = [c \in Channels |-> FALSE]
  /\ attempt = [c \in Channels |-> "none"]
  /\ closed = [c \in Channels |-> FALSE]
  /\ lastPadCommand = "none"

Init == SchedInit /\ SeqInit /\ FnIdle /\ PadInit /\ OtherInit

\* The AudioStreamer alone, driven through its public methods and the
\* callbacks of its timers and sources.
SchedNext ==
  \/ OnAudio(ChunkSizes, MaxChunks) /\ UNCHANGED <<seqVars, fnVars, padVars, otherVars>>
  \/ \E tracked \in BOOLEAN : TimerFires(tracked) /\ UNCHANGED <<seqVars, fnVars, padVars, otherVars>>
  \/ OnEnded /\ UNCHANGED <<seqVars, fnVars, padVars, otherVars>>
  \/ OnEndedStopped /\ UNCHANGED <<seqVars, fnVars, padVars, otherVars>>
  \/ Stop /\ UNCHANGED <<seqVars, fnVars, padVars, otherVars>>
  \/ Resume /\ UNCHANGED <<seqVars, fnVars, padVars, otherVars>>
  \/ Complete /\ UNCHANGED <<seqVars, fnVars, padVars, otherVars>>
  \/ Advance(MaxTicks) /\ UNCHANGED <<seqVars, fnVars, padVars, otherVars>>

SchedSpec == Init /\ [][SchedNext]_vars

\* The application: DatabaseBridge and useLiveApi around the AudioStreamer.
Next ==
  \/ OnTranscript /\ UNCHANGED <<fnVars, padVars, otherVars>>
  \/ EffectRun /\ UNCHANGED <<fnVars, padVars, otherVars>>
  \/ \E l \in 1..MaxLoops : ArrivalPoll(l) /\ UNCHANGED <<fnVars, padVars, otherVars>>
  \/ \E l \in 1..MaxLoops : PipelinePoll(l) /\ UNCHANGED <<fnVars, padVars, otherVars>>
  \/ \E l \in 1..MaxLoops : SaveDone(l) /\ UNCHANGED <<fnVars, padVars, otherVars>>
  \/ SetVoiceStyle /\ UNCHANGED <<fnVars, padVars, otherVars>>
  \/ OnOutputTranscription
       /\ UNCHANGED <<fnVars, padVars, audioLog, clientVars, lastPadCommand>>
  \/ Connect /\ UNCHANGED <<fnVars, padVars, otherVars>>
  \/ Disconnect /\ UNCHANGED <<fnVars, padVars, otherVars>>
  \/ Interrupted /\ UNCHANGED <<fnVars, padVars, otherVars>>
  \/ AudioArrives /\ UNCHANGED <<fnVars, padVars, otherVars>>
  \/ \E tracked \in BOOLEAN : TimerFires(tracked) /\ UNCHANGED <<seqVars, fnVars, padVars, otherVars>>
  \/ OnEnded /\ UNCHANGED <<seqVars, fnVars, padVars, otherVars>>
  \/ OnEndedStopped /\ UNCHANGED <<seqVars, fnVars, padVars, otherVars>>
  \/ Advance(MaxAppTicks) /\ UNCHANGED <<seqVars, fnVars, padVars, otherVars>>

Spec == Init /\ [][Next]_vars

\* ------------------------------------------------------------ ambient pad
\* Volumes of the backgroundPadVolume setting, in hundredths.
PadVolumes == {20, 50}

PadFreqs == <<14683, 22000, 29366>>

\* setPadVolume(volume)
SetPadVolume(volume) ==
  /\ padGain
  /\ padRamp' = volume
  /\ UNCHANGED <<padGain, padFilter, padOscillators, padTimers>>

\* startPad(volume): nothing when a pad exists; else the gain, the filter
\* and one oscillator per frequency are created and the gain ramps up.
StartPad(volume) ==
  /\ ~padGain
  /\ padGain' = TRUE
  /\ padFilter' = TRUE
  /\ padOscillators' = padOscillators + Len(PadFreqs)
  /\ padRamp' = volume
  /\ UNCHANGED padTimers

\* stopPad(): nothing when there is no pad; else the gain ramps to 0 and
\* the teardown is set for 2 s later.
StopPad ==
  /\ padGain
  /\ padTimers < MaxPadTimers
  /\ padRamp' = 0
  /\ padTimers' = padTimers + 1
  /\ UNCHANGED <<padGain, padFilter, padOscillators>>

\* The teardown timer of stopPad fires.
PadTeardown ==
  /\ padTimers > 0
  /\ padTimers' = padTimers - 1
  /\ padOscillators' = 0
  /\ padGain' = FALSE
  /\ padFilter' = FALSE
  /\ padRamp' = 0

\* A stop that tears the pad down with the main queue.
StopTearsPad ==
  /\ padGain' = FALSE
  /\ padFilter' = FALSE
  /\ padOscillators' = 0
  /\ padRamp' = 0
  /\ padTimers' = 0

\* What stop() does to the pad: it assigns none of its fields and sets or
\* clears no pad timer.
StopPadEffect == UNCHANGED padVars

\* stop() of an AudioStreamer that may have a pad.
StreamerStop == Stop /\ StopPadEffect

\* The AudioStreamer with its pad: the pad setting is switched and its
\* volume changed while chunks are played and the main queue is stopped.
PadNext ==
  \/ \E v \in PadVolumes : StartPad(v) /\ UNCHANGED <<schedVars, seqVars, fnVars, otherVars>>
  \/ \E v \in PadVolumes : SetPadVolume(v) /\ UNCHANGED <<schedVars, seqVars, fnVars, otherVars>>
  \/ StopPad /\ UNCHANGED <<schedVars, seqVars, fnVars, otherVars>>
  \/ PadTeardown /\ UNCHANGED <<schedVars, seqVars, fnVars, otherVars>>
  \/ StreamerStop /\ UNCHANGED <<seqVars, fnVars, otherVars>>
  \/ OnAudio(AppChunkSizes, MaxAppChunks) /\ UNCHANGED <<seqVars, fnVars, padVars, otherVars>>
  \/ \E tracked \in BOOLEAN : TimerFires(tracked) /\ UNCHANGED <<seqVars, fnVars, padVars, otherVars>>
  \/ OnEnded /\ UNCHANGED <<seqVars, fnVars, padVars, otherVars>>
  \/ OnEndedStopped /\ UNCHANGED <<seqVars, fnVars, padVars, otherVars>>
  \/ Advance(MaxAppTicks) /\ UNCHANGED <<seqVars, fnVars, padVars, otherVars>>

PadSpec == Init /\ [][PadNext]_vars

\* What a pad call leaves alone.
padRest == <<schedVars, seqVars, fnVars, audioLog, lastUpdate, clientVars>>

\* A call of startPad(volume) by the pad effect of useLiveApi, whether or
\* not a pad exists.
CallStartPad(volume) ==
  /\ lastPadCommand' = "start"
  /\ IF padGain THEN UNCHANGED padVars ELSE StartPad(volume)
  /\ UNCHANGED padRest

\* A call of stopPad() by the pad effect of useLiveApi, whether or not a
\* pad exists.
CallStopPad ==
  /\ lastPadCommand' = "stop"
  /\ IF padGain THEN StopPad ELSE UNCHANGED padVars
  /\ UNCHANGED padRest

\* The pad setting switched on and off in any order while the teardown
\* timers fire, chunks are played and the main queue is stopped.
PadCallNext ==
  \/ \E v \in PadVolumes : CallStartPad(v)
  \/ CallStopPad
  \/ \E v \in PadVolumes : SetPadVolume(v) /\ UNCHANGED <<schedVars, seqVars, fnVars, otherVars>>
  \/ PadTeardown /\ UNCHANGED <<schedVars, seqVars, fnVars, otherVars>>
  \/ StreamerStop /\ UNCHANGED <<seqVars, fnVars, otherVars>>
  \/ OnAudio(AppChunkSizes, MaxAppChunks) /\ UNCHANGED <<seqVars, fnVars, padVars, otherVars>>
  \/ OnEnded /\ UNCHANGED <<seqVars, fnVars, padVars, otherVars>>
  \/ OnEndedStopped /\ UNCHANGED <<seqVars, fnVars, padVars, otherVars>>
  \/ Advance(MaxAppTicks) /\ UNCHANGED <<seqVars, fnVars, padVars, otherVars>>

PadCallSpec == Init /\ [][PadCallNext]_vars

\* ------------------------------------------- the sequencer without audio
\* Records of the transcript source: three paragraphs, and one paragraph
\* for a named speaker.
SeqTranscripts ==
  { [id |-> 1, text |-> <<"Hello", NL, NL, "World", NL, NL, "go", NL>>],
    [id |-> 2, text |-> <<"Hello", NL, "Male 1:", " ", "go", " ", "now">>] }

OnTranscriptSeq ==
  /\ pushes < MaxSeqPushes
  /\ \E data \in SeqTranscripts : ProcessNewData(data)

\* 15 s pass in which nothing else happens.
LongWait ==
  /\ now < MaxJumps * ArrivalTimeout
  /\ now' = now + ArrivalTimeout
  /\ UNCHANGED <<audioQueue, isPlaying, scheduledTime, activeSources, checkArmed,
                 orphanTimers, staleEnded, isAudioPlaying, nextId, chunks>>

\* DatabaseBridge and useLiveApi in a session that stays connected, while
\* the upstream sends transcriptions but no audio.
SeqNext ==
  \/ OnTranscriptSeq /\ UNCHANGED <<fnVars, padVars, otherVars>>
  \/ EffectRun /\ UNCHANGED <<fnVars, padVars, otherVars>>
  \/ \E l \in 1..MaxLoops : ArrivalPoll(l) /\ UNCHANGED <<fnVars, padVars, otherVars>>
  \/ \E l \in 1..MaxLoops : SaveDone(l) /\ UNCHANGED <<fnVars, padVars, otherVars>>
  \/ OnOutputTranscription
       /\ UNCHANGED <<fnVars, padVars, audioLog, clientVars, lastPadCommand>>
  \/ Connect /\ UNCHANGED <<fnVars, padVars, otherVars>>
  \/ LongWait /\ UNCHANGED <<seqVars, fnVars, padVars, otherVars>>

SeqSpec == Init /\ [][SeqNext]_vars

\* ------------------------------------------------------------- ingestion
OnTranscriptIngest ==
  /\ pushes < MaxIngest
  /\ \E data \in SeqTranscripts : ProcessNewData(data)

\* The ingestion of DatabaseBridge over connects and disconnects; the
\* consumer loops it starts stay in their first wait.
IngestNext ==
  \/ OnTranscriptIngest /\ UNCHANGED <<fnVars, padVars, otherVars>>
  \/ EffectRun /\ UNCHANGED <<fnVars, padVars, otherVars>>
  \/ Connect /\ UNCHANGED <<fnVars, padVars, otherVars>>
  \/ Disconnect /\ UNCHANGED <<fnVars, padVars, otherVars>>

IngestSpec == Init /\ [][IngestNext]_vars

\* The ingestion and the consumer loop in one session that stays connected
\* while the poll and the subscription deliver records.
SessionNext ==
  \/ OnTranscriptIngest /\ UNCHANGED <<fnVars, padVars, otherVars>>
  \/ EffectRun /\ UNCHANGED <<fnVars, padVars, otherVars>>
  \/ \E l \in 1..MaxLoops : ArrivalPoll(l) /\ UNCHANGED <<fnVars, padVars, otherVars>>
  \/ Connect /\ UNCHANGED <<fnVars, padVars, otherVars>>
  \/ LongWait /\ UNCHANGED <<seqVars, fnVars, padVars, otherVars>>

SessionSpec == Init /\ [][SessionNext]_vars

\* ------------------------------------------- the sequencer with its audio
\* Chunks the upstream sends in one session.
MaxLateChunks == 2

\* onAudio of a channel: the upstream streams the audio of a segment it was
\* sent, in chunks, and the handler passes each chunk to addPCM16.
AudioAnswers ==
  /\ \E i \in 1..Len(sentLog) :
       /\ sentLog[i].delivered
       /\ status[sentLog[i].channel] = "connected"
       /\ audioLog' = audioLog \cup {sentLog[i].sid}
  /\ OnAudio(AppChunkSizes, MaxLateChunks)
  /\ UNCHANGED seqVars

\* DatabaseBridge, useLiveApi and the AudioStreamer in a session that stays
\* connected, with each chunk of audio known by the segment it answers.
LateNext ==
  \/ OnTranscriptSeq /\ UNCHANGED <<fnVars, padVars, otherVars>>
  \/ EffectRun /\ UNCHANGED <<fnVars, padVars, otherVars>>
  \/ \E l \in 1..MaxLoops : ArrivalPoll(l) /\ UNCHANGED <<fnVars, padVars, otherVars>>
  \/ \E l \in 1..MaxLoops : PipelinePoll(l) /\ UNCHANGED <<fnVars, padVars, otherVars>>
  \/ Connect /\ UNCHANGED <<fnVars, padVars, otherVars>>
  \/ AudioAnswers /\ UNCHANGED <<fnVars, padVars, lastUpdate, clientVars, lastPadCommand>>
  \/ \E tracked \in BOOLEAN : TimerFires(tracked) /\ UNCHANGED <<seqVars, fnVars, padVars, otherVars>>
  \/ OnEnded /\ UNCHANGED <<seqVars, fnVars, padVars, otherVars>>
  \/ Advance(MaxAppTicks) /\ UNCHANGED <<seqVars, fnVars, padVars, otherVars>>
  \/ LongWait /\ UNCHANGED <<seqVars, fnVars, padVars, otherVars>>

LateSpec == Init /\ [][LateNext]_vars

\* ------------------------------------------------- functions on their own
\* Tokens of the texts: two words and the two kinds of whitespace.
TextTokens == {"Hello", "World", " ", NL}
Texts == UNION {[1..n -> TextTokens] : n \in 0..MaxTextLen}

\* The styles the voice style switch of processQueueLoop distinguishes.
AllVoiceStyles ==
  {"natural", "breathy", "dramatic", "enthusiastic", "formal", "conversational"}

\* Queue items as processNewData builds them: segments of transcript text
\* (refData is the record id) and the injected filler (no refData).
ScriptItems ==
  { [text |-> <<"go", " ", "now">>, refData |-> 1],
    [text |-> <<"Male 1:", " ", "go", " ", "now">>, refData |-> 1],
    [text |-> <<"Female 2:", " ", "Hello">>, refData |-> 1],
    [text |-> <<"(clears throat)">>, refData |-> 1],
    [text |-> <<"(clears throat)">>, refData |-> 0] }

\* The values of GenAILiveClient._status.
ClientStatuses == {"connected", "disconnected", "connecting"}

SendFns == {"send", "sendRealtimeInput", "sendToolResponse"}

\* A rejection that looks at the status only.
RejectsByStatus(st, session) == st # "connected"

\* this._status !== 'connected' || !this.session
Rejects(st, session) == st # "connected" \/ ~session

\* The number of messages a call hands to the session: one sendClientContent
\* for send, one sendRealtimeInput per chunk, and one sendToolResponse when
\* there are function responses.
Messages(fn, n) ==
  CASE fn = "send" -> 1
    [] fn = "sendRealtimeInput" -> n
    [] fn = "sendToolResponse" -> IF n > 0 THEN 1 ELSE 0

\* send, sendRealtimeInput and sendToolResponse of GenAILiveClient, called
\* with n parts, chunks or function responses on a client with the given
\* status and session; `thr` is the session throwing on the first message.
\* The result tells what was handed to the session, the 'error' and 'log'
\* events emitted, whether the call threw, and the status and session after.
ClientSend(call, thr) ==
  IF Rejects(call.status, call.session)
    THEN [transmitted |-> 0, errors |-> 1, logs |-> 0, threw |-> FALSE,
          status |-> call.status, session |-> call.session]
  ELSE IF thr /\ Messages(call.fn, call.n) > 0
    THEN [transmitted |-> 0, errors |-> 0, logs |-> 0, threw |-> TRUE,
          status |-> call.status, session |-> call.session]
  ELSE [transmitted |-> Messages(call.fn, call.n), errors |-> 0, logs |-> 1,
        threw |-> FALSE, status |-> call.status, session |-> call.session]

\* Outcomes of one upstream connection attempt: the session opens, the
\* attempt fails with a message that has 'unavailable' or '503' in it, or it
\* fails with another message.
AttemptOutcomes == {"ok", "unavailable", "failed"}

\* A retry after every failure.
RetryAlways(outcome) == outcome # "ok"

\* e.message?.includes('unavailable') || e.message?.includes('503')
IsTransient(outcome) == outcome = "unavailable"

\* GenAILiveClient.connect on a client with the given status, when the first
\* upstream attempt ends as `first` and a second one as `second`. The result
\* tells the attempts made, the value returned, the status after, and the
\* 'error' events emitted by onError.
ClientConnect(call) ==
  IF call.status \in {"connected", "connecting"}
    THEN [attempts |-> 0, returned |-> FALSE, status |-> call.status, errors |-> 0]
  ELSE IF call.first = "ok"
    THEN [attempts |-> 1, returned |-> TRUE, status |-> "connected", errors |-> 0]
  ELSE IF IsTransient(call.first)
    THEN IF call.second = "ok"
           THEN [attempts |-> 2, returned |-> TRUE, status |-> "connected",
                 errors |-> 0]
           ELSE [attempts |-> 2, returned |-> FALSE, status |-> "disconnected",
                 errors |-> 1]
  ELSE [attempts |-> 1, returned |-> FALSE, status |-> "disconnected", errors |-> 1]

\* Raw texts of queue items: segments as segmentText yields them (trimmed,
\* not empty), with and without a speaker prefix, and the filler.
RawTexts ==
  { <<"go", " ", "now">>,
    <<"Male 1:", " ", "go", " ", "now">>,
    <<"Male 2:", "go">>,
    <<"Female 1:", " ", " ", "Hello">>,
    <<"Female 2:", " ", "Hello", " ", "Male 1:">>,
    <<"Male 1:">>,
    <<"Hello", " ", "Male 1:", " ", "go">>,
    <<"(clears throat)">> }

\* sendToSpeaker(text, speaker): the client whose send is called.
SendToSpeaker(speaker) ==
  CASE speaker = "Male 1" -> "Male 1"
    [] speaker = "Male 2" -> "Male 2"
    [] speaker = "Female 1" -> "Female 1"
    [] speaker = "Female 2" -> "Female 2"
    [] OTHER -> "default"

\* One iteration of processQueueLoop on an item with the given raw text
\* under a voice style, up to the send: the text after the speaker
\* detection, the scripted text, whether the item is skipped as blank, and
\* the clients whose send is called with the scripted text.
Dispatch(style, rawText) ==
  LET d == DetectSpeaker(rawText)
      scriptedText == ApplyStyle(style, d.text)
  IN [textToSend |-> d.text,
      scriptedText |-> scriptedText,
      skipped |-> IsBlank(scriptedText),
      clients |-> IF IsBlank(scriptedText) THEN {} ELSE {SendToSpeaker(d.speaker)}]

\* Pending queues addPCM16 is called on: empty, and holding one buffer.
PendingQueues == {<<>>, <<[id |-> 0, len |-> CheckInterval]>>}

\* The calls made: segmentText(text), the text transform of one iteration
\* of processQueueLoop on a queue item under a voice style, the send
\* functions and connect of a GenAILiveClient, and the split of addPCM16.
FnCalls ==
  {[fn |-> "segmentText", text |-> t] : t \in Texts}
  \cup {[fn |-> "script", style |-> st, item |-> it] :
           st \in AllVoiceStyles, it \in ScriptItems}
  \cup {[fn |-> f, status |-> st, session |-> ss, n |-> n] :
           f \in SendFns, st \in ClientStatuses, ss \in BOOLEAN,
           n \in 0..MaxParts}
  \cup {[fn |-> "connect", status |-> st, first |-> o1, second |-> o2] :
           st \in ClientStatuses, o1 \in AttemptOutcomes, o2 \in AttemptOutcomes}
  \cup {[fn |-> "addPCM16", n |-> n, queue |-> q] :
           n \in 0..MaxSamples, q \in PendingQueues}
  \cup {[fn |-> "dispatch", style |-> st, rawText |-> t] :
           st \in AllVoiceStyles, t \in RawTexts}

FnInit == SchedInit /\ SeqInit /\ PadInit /\ OtherInit /\ arg \in FnCalls /\ ret = <<>>

CallSegmentText ==
  /\ arg.fn = "segmentText"
  /\ ret = <<>>
  /\ ret' = <<segmentText(arg.text)>>
  /\ UNCHANGED <<arg, schedVars, seqVars, padVars, otherVars>>

\* Speaker detection and voice style of one iteration of processQueueLoop.
CallScript ==
  /\ arg.fn = "script"
  /\ ret = <<>>
  /\ ret' = <<ApplyStyle(arg.style, DetectSpeaker(arg.item.text).text)>>
  /\ UNCHANGED <<arg, schedVars, seqVars, padVars, otherVars>>

CallClientSend ==
  /\ arg.fn \in SendFns
  /\ ret = <<>>
  /\ \E thr \in BOOLEAN : ret' = <<ClientSend(arg, thr)>>
  /\ UNCHANGED <<arg, schedVars, seqVars, padVars, otherVars>>

CallClientConnect ==
  /\ arg.fn = "connect"
  /\ ret = <<>>
  /\ ret' = <<ClientConnect(arg)>>
  /\ UNCHANGED <<arg, schedVars, seqVars, padVars, otherVars>>

\* The first part of addPCM16: the chunk of arg.n samples is cut up and
\* pushed onto the pending queue; the result is the queue after the pushes.
CallAddPCM16 ==
  /\ arg.fn = "addPCM16"
  /\ ret = <<>>
  /\ ret' = <<arg.queue \o SplitChunk(arg.n, Len(arg.queue))>>
  /\ UNCHANGED <<arg, schedVars, seqVars, padVars, otherVars>>

CallDispatch ==
  /\ arg.fn = "dispatch"
  /\ ret = <<>>
  /\ ret' = <<Dispatch(arg.style, arg.rawText)>>
  /\ UNCHANGED <<arg, schedVars, seqVars, padVars, otherVars>>

FnNext ==
  \/ CallSegmentText
  \/ CallScript
  \/ CallClientSend
  \/ CallClientConnect
  \/ CallAddPCM16
  \/ CallDispatch

FnSpec == FnInit /\ [][FnNext]_vars

\* ------------------------------------------------- GenAILiveClient alone
\* What a client action leaves alone.
clientRest == <<connected, effectConnected, queueRef, isProcessingRef, loops,
                voiceStyleRef, lastProcessedIdRef, paragraphCountRef,
                currentTurnIdRef, currentTranslationBufferRef, nextSid, pushes,
                turnLog, pushLog, sentLog, insertLog, skippedLog,
                schedVars, fnVars, padVars, audioLog, lastUpdate, lastPadCommand>>

\* connect(config) up to its first await: the guard on the status, then
\* 'connecting' and the call of live.connect. One connect() is awaited per
\* client at a time.
ClientConnectCall(c) ==
  /\ status[c] \notin {"connected", "connecting"}
  /\ attempt[c] = "none"
  /\ status' = [status EXCEPT ![c] = "connecting"]
  /\ attempt' = [attempt EXCEPT ![c] = "first"]
  /\ closed' = [closed EXCEPT ![c] = FALSE]
  /\ UNCHANGED <<clientSession, clientRest>>

\* The live.connect call a connect() awaits settles, and connect() runs on
\* to its next await or its return.
ClientConnectSettles(c, outcome) ==
  /\ attempt[c] # "none"
  /\ IF outcome = "ok"
       THEN /\ clientSession' = [clientSession EXCEPT ![c] = TRUE]
            /\ status' = [status EXCEPT ![c] = "connected"]
            /\ attempt' = [attempt EXCEPT ![c] = "none"]
     ELSE IF attempt[c] = "first" /\ IsTransient(outcome)
       THEN /\ attempt' = [attempt EXCEPT ![c] = "retry"]
            /\ UNCHANGED <<clientSession, status>>
     ELSE IF attempt[c] = "first"
       THEN /\ status' = [status EXCEPT ![c] = "disconnected"]
            /\ clientSession' = [clientSession EXCEPT ![c] = FALSE]
            /\ attempt' = [attempt EXCEPT ![c] = "none"]
     ELSE /\ status' = [status EXCEPT ![c] = "disconnected"]
          /\ attempt' = [attempt EXCEPT ![c] = "none"]
          /\ UNCHANGED clientSession
  /\ UNCHANGED <<closed, clientRest>>

\* disconnect(): closes the session the client holds, if any, and clears it.
ClientDisconnect(c) ==
  /\ clientSession' = [clientSession EXCEPT ![c] = FALSE]
  /\ status' = [status EXCEPT ![c] = "disconnected"]
  /\ closed' = [closed EXCEPT ![c] = TRUE]
  /\ UNCHANGED <<attempt, clientRest>>

\* The five clients of useLiveApi, connected and disconnected in any order
\* while the upstream settles their connection attempts.
ClientNext ==
  \/ \E c \in Channels : ClientConnectCall(c)
  \/ \E c \in Channels : \E outcome \in AttemptOutcomes : ClientConnectSettles(c, outcome)
  \/ \E c \in Channels : ClientDisconnect(c)

ClientSpec == Init /\ [][ClientNext]_vars

\* ------------------------------------------------------------ properties
SentSids == {sentLog[i].sid : i \in 1..Len(sentLog)}
QueuedSids == {queueRef[i].sid : i \in 1..Len(queueRef)}
SkippedSids == {k.sid : k \in skippedLog}

\* Loops between the dispatch of their segment and the end of its
\* pipelining wait.
InFlight == {l \in 1..MaxLoops : loops[l].pc \in {"arrival", "pipeline"}}

C2_OneInFlight == Cardinality(InFlight) <= 1

\* C3: at most one invocation of processQueueLoop that passed the guard and
\* has not returned exists at any time.
C3_OneLoop == Cardinality(Running) <= 1

\* C4: while the scheduler stays Playing, scheduledTime never decreases.
C4_ScheduledTimeMonotone ==
  [][isPlaying /\ isPlaying' => scheduledTime' >= scheduledTime]_vars

\* C5: the duration telemetry is never negative, and is 0 whenever the
\* scheduler is Idle.
C5_Duration ==
  /\ getAudioStreamerState.duration >= 0
  /\ ~isPlaying => getAudioStreamerState.duration = 0

\* Idle with scheduledTime ahead of the output clock.
C5_Witness == ~isPlaying /\ scheduledTime > now

\* The state stop() returns in.
Stopped ==
  /\ audioQueue = <<>>
  /\ activeSources = {}
  /\ ~isPlaying
  /\ getAudioStreamerState.duration = 0
  /\ scheduledTime = now
  /\ ~isAudioPlaying

\* C6: immediately after stop() the queue and the in-flight set are empty,
\* the scheduler is Idle, duration is 0, scheduledTime is the output-clock
\* time and playback-complete has been raised.
C6_AfterStop == [][Stop => Stopped']_vars

\* stop() has halted sources that were rendering: their ended events are
\* still to come.
C6_Witness == Stopped /\ staleEnded > 0

\* C7: the playback intervals of two committed buffers that stop() has not
\* discarded never overlap.
C7_NoOverlap ==
  \A a, b \in activeSources :
    a # b => (a.start + a.len <= b.start \/ b.start + b.len <= a.start)

\* C8: buffers are committed in the order they were appended, with
\* non-decreasing start times.
C8_CommitOrder ==
  /\ \A a, b \in activeSources : a.id < b.id => a.start <= b.start
  /\ \A a \in activeSources : \A i \in 1..Len(audioQueue) : a.id < audioQueue[i].id
  /\ \A i, j \in 1..Len(audioQueue) : i < j => audioQueue[i].id < audioQueue[j].id

\* C9: the scheduler is Idle only when the pending queue and the in-flight
\* set are both empty.
C9_IdleOnlyWhenEmpty == ~isPlaying => (audioQueue = <<>> /\ activeSources = {})

\* C10: a segment is dispatched at most once and is never put back on the
\* queue: no segment occurs twice in the sends, and no segment that was
\* sent or skipped is in the queue.
C10_AtMostOnce ==
  /\ \A i, j \in 1..Len(sentLog) : sentLog[i].sid = sentLog[j].sid => i = j
  /\ \A i, j \in 1..Len(queueRef) : queueRef[i].sid = queueRef[j].sid => i = j
  /\ (SentSids \cup SkippedSids) \cap QueuedSids = {}

\* A loop has sent a segment and ended (status check failed, or the next
\* send threw) with a segment still in the queue.
C10_Witness ==
  /\ Len(sentLog) >= 1
  /\ queueRef # <<>>
  /\ Running = {}
  /\ ~isProcessingRef

\* The maximal newline-free stretches <<i, j>> of a text that hold a token
\* other than whitespace.
Runs(t) ==
  {r \in (1..Len(t)) \X (1..Len(t)) :
     /\ r[1] <= r[2]
     /\ \A k \in r[1]..r[2] : t[k] # NL
     /\ r[1] = 1 \/ t[r[1] - 1] = NL
     /\ r[2] = Len(t) \/ t[r[2] + 1] = NL
     /\ \E k \in r[1]..r[2] : ~IsSpace(t[k])}

\* The k-th of them in source order.
RunAt(t, k) ==
  CHOOSE r \in Runs(t) : Cardinality({q \in Runs(t) : q[1] < r[1]}) = k - 1

Example11 == <<"Hello", NL, NL, "World", NL>>

\* C11: segmentText returns, in source order, exactly the non-empty trimmed
\* pieces of its input: as many segments as the text has stretches with
\* content, the k-th being the k-th stretch without its leading and
\* trailing whitespace; none is empty or starts or ends with whitespace, a
\* text of whitespace only gives the empty list, and "Hello\n\nWorld\n"
\* gives ["Hello", "World"].
C11_SegmentText ==
  (arg # <<>> /\ arg.fn = "segmentText" /\ ret # <<>>) =>
    LET t == arg.text
        segs == ret[1]
    IN /\ Len(segs) = Cardinality(Runs(t))
       /\ \A k \in 1..Len(segs) :
            /\ segs[k] # <<>>
            /\ ~IsSpace(segs[k][1]) /\ ~IsSpace(segs[k][Len(segs[k])])
            /\ \E i \in RunAt(t, k)[1]..RunAt(t, k)[2] :
               \E j \in i..RunAt(t, k)[2] :
                 /\ segs[k] = SubSeq(t, i, j)
                 /\ \A m \in (RunAt(t, k)[1]..(i - 1)) \cup ((j + 1)..RunAt(t, k)[2]) :
                      IsSpace(t[m])
       /\ (\A k \in 1..Len(t) : IsSpace(t[k])) => segs = <<>>
       /\ t = Example11 => segs = <<(<<"Hello">>), (<<"World">>)>>

\* segmentText has returned for "Hello\n\nWorld\n".
C11_Witness ==
  /\ arg # <<>> /\ arg.fn = "segmentText" /\ arg.text = Example11
  /\ ret = <<(<<(<<"Hello">>), (<<"World">>)>>)>>

\* An item of the queue that the filler rule injected.
IsFillerItem(item) == item.refData = 0

\* The number of segments of transcript text among the first i pushed items.
Paragraphs(i) == Cardinality({j \in 1..i : ~IsFillerItem(pushLog[j])})

FillerPositions == {i \in 1..Len(pushLog) : IsFillerItem(pushLog[i])}

\* C12: the k-th segment of transcript text pushed onto the queue is
\* directly followed by one filler '(clears throat)' exactly when k is a
\* multiple of 3, no filler is pushed elsewhere, and the paragraph counter
\* is the number of such segments pushed in the whole session, over
\* transcript updates, disconnects and reconnects.
C12_FillerEveryThird ==
  /\ \A i \in 1..Len(pushLog) :
       IF IsFillerItem(pushLog[i])
         THEN /\ pushLog[i].text = <<"(clears throat)">>
              /\ i > 1 /\ ~IsFillerItem(pushLog[i - 1])
              /\ Paragraphs(i) % 3 = 0
         ELSE (Paragraphs(i) % 3 = 0) =>
                (i < Len(pushLog) /\ IsFillerItem(pushLog[i + 1]))
  /\ paragraphCountRef = Paragraphs(Len(pushLog))

\* Two fillers have been pushed, the second one in the third transcript
\* update of the session, after a disconnect and reconnect.
C12_Witness ==
  /\ Cardinality(FillerPositions) = 2
  /\ Len(turnLog) = 3
  /\ Cardinality(Running) = 2

\* The segments of transcript text pushed for the t-th turn.
TurnItems(t) ==
  SelectSeq(pushLog, LAMBDA item : item.turnId = t /\ ~IsFillerItem(item))

\* C13: a record with the id of the last processed record changes nothing:
\* no two turns in a row are for the same record id, there is one turn per
\* processed record, and the segments pushed for a turn are those of one
\* pass over its record.
C13_SameIdIgnored ==
  /\ \A t \in 1..(Len(turnLog) - 1) : turnLog[t] # turnLog[t + 1]
  /\ Len(turnLog) = pushes
  /\ turnLog # <<>> => lastProcessedIdRef = turnLog[Len(turnLog)]
  /\ \A t \in 1..Len(turnLog) :
       \E data \in SeqTranscripts :
         /\ data.id = turnLog[t]
         /\ Len(TurnItems(t)) = Len(segmentText(data.text))
         /\ \A k \in 1..Len(TurnItems(t)) : TurnItems(t)[k].refData = data.id

\* A record has been processed and the ingestion can be called again with
\* the same record.
C13_Witness ==
  /\ lastProcessedIdRef = 1
  /\ effectConnected
  /\ pushes < MaxIngest
  /\ Len(turnLog) = 2

\* The fixed wrapping of a text under a voice style.
Wrapping(style, t) ==
  CASE style = "breathy" ->
         <<"(soft inhale)", " ">> \o t \o <<" ", "...", " ", "(pause)">>
    [] style = "dramatic" ->
         <<"(slowly)", " ">> \o t \o <<" ", "...", " ", "(long pause)">>
    [] style = "enthusiastic" -> <<"(excitedly)", " ">> \o t
    [] style = "formal" -> <<"(professionally)", " ">> \o t
    [] style = "conversational" -> <<"(casually)", " ">> \o t
    [] style = "natural" -> t

\* The text of a segment without its speaker prefix.
Stripped(t) ==
  IF t # <<>> /\ Head(t) \in {"Male 1:", "Male 2:", "Female 1:", "Female 2:"}
    THEN Trim(Tail(t))
    ELSE t

\* C14: a segment of transcript text is dispatched as the wrapping of its
\* prefix-stripped text under the active style, and an injected filler is
\* dispatched verbatim as '(clears throat)' under every style.
C14_StyleWrapping ==
  (arg.fn = "script" /\ ret # <<>>) =>
    IF IsFillerItem(arg.item)
      THEN ret[1] = <<"(clears throat)">>
      ELSE ret[1] = Wrapping(arg.style, Stripped(arg.item.text))

\* The arrival wait of loop l has run for 15 s and the end of the audio
\* queue has not grown by more than 0.1 s over its value before the send.
TimedOut(l) ==
  /\ loops[l].pc = "arrival"
  /\ now - loops[l].waitStart >= ArrivalTimeout
  /\ ~(getAudioStreamerState.endOfQueueTime > loops[l].pre + ArrivalDelta)

\* The channel the segment at the head of queue q is sent to.
HeadChannel(q) == DetectSpeaker(q[1].text).speaker

C16_FailureAdvances ==
  [][\A l \in 1..MaxLoops :
       (loops[l].pc # "none" /\ loops'[l].pc = "none"
          /\ status["default"] = "connected")
         => queueRef' = <<>>]_vars

\* The pushed item with segment id sid.
Pushed(sid) == {k \in 1..Len(pushLog) : pushLog[k].sid = sid}

\* C17: the insert is invoked at most once per dispatched segment, after
\* the segment's pipelining wait, only for a segment that carries
\* transcript record data and with a non-empty trimmed translation; an
\* injected filler is never persisted.
C17_PersistOnce ==
  /\ \A i, j \in 1..Len(insertLog) :
       insertLog[i].sid = insertLog[j].sid => i = j
  /\ \A i \in 1..Len(insertLog) :
       /\ insertLog[i].sid \in SentSids
       /\ Pushed(insertLog[i].sid) # {}
       /\ \A k \in Pushed(insertLog[i].sid) :
            ~IsFillerItem(pushLog[k]) /\ pushLog[k].refData # 0
       /\ insertLog[i].translated_text # <<>>
       /\ \A l \in InFlight : loops[l].item.sid # insertLog[i].sid

\* The insert of a dispatched segment with a translation is being awaited.
C17_Witness ==
  /\ insertLog # <<>>
  /\ \E l \in 1..MaxLoops :
       /\ loops[l].pc = "save"
       /\ loops[l].item.sid = insertLog[Len(insertLog)].sid

\* C18: a failed insert is not retried and does not stop the consumer
\* loop: every step the loop takes when its insert is rejected is a step
\* it takes when the insert is fulfilled, and the other way round, and
\* that step invokes no further insert.
C18_InsertFailureIgnored ==
  [][\A l \in 1..MaxLoops :
       /\ \A ok \in BOOLEAN : InsertSettles(l, ok) => InsertSettles(l, ~ok)
       /\ (loops[l].pc = "save" /\ loops'[l] # loops[l]) => insertLog' = insertLog]_vars

\* After the insert of a segment has settled, its loop has dispatched the
\* segment behind it.
C18_Witness ==
  /\ insertLog # <<>>
  /\ \E l \in 1..MaxLoops :
       /\ loops[l].pc = "arrival"
       /\ loops[l].item.sid = insertLog[1].sid + 1

\* q is an initial part of r.
IsPrefix(q, r) == Len(q) <= Len(r) /\ SubSeq(r, 1, Len(q)) = q

\* C19: while the default client is not connected no segment is dispatched
\* or removed: a step leaves the dispatched and the skipped segments as they
\* are and the queue as an initial part of the new queue, and a loop that
\* comes to the top of an iteration ends and clears the processing flag.
\* Every step that dispatches a segment dispatches one pushed before all
\* segments left in the queue and after all segments dispatched before, so
\* the segments left by the loop go out in their original order.
C19_AbortKeepsQueue ==
  [][/\ (status["default"] # "connected" /\ status'["default"] # "connected") =>
          /\ sentLog' = sentLog
          /\ skippedLog' = skippedLog
          /\ IsPrefix(queueRef, queueRef')
          /\ \A l \in 1..MaxLoops :
               (loops[l].pc # "none" /\ loops'[l] # loops[l]
                  /\ loops'[l].pc \notin {"pipeline", "save"})
                 => (loops'[l].pc = "none" /\ ~isProcessingRef')
     /\ sentLog' # sentLog =>
          /\ Len(sentLog') = Len(sentLog) + 1
          /\ SubSeq(sentLog', 1, Len(sentLog)) = sentLog
          /\ \A i \in 1..Len(sentLog) :
               sentLog[i].sid < sentLog'[Len(sentLog')].sid
          /\ \A k \in 1..Len(queueRef') :
               sentLog'[Len(sentLog')].sid < queueRef'[k].sid]_vars

\* A loop that had dispatched a segment came to the top of its next
\* iteration with the default client disconnected and ended; the segments
\* behind are still queued.
C19_Witness ==
  /\ status["default"] # "connected"
  /\ queueRef # <<>>
  /\ Running = {}
  /\ sentLog # <<>>
  /\ currentTurnIdRef = 0
  /\ ~isProcessingRef

\* C20: send, sendRealtimeInput and sendToolResponse of a client whose
\* status is not 'connected' or that has no session hand nothing to the
\* session, emit one 'error' event, do not throw, and leave the status and
\* the session as they were.
C20_SendNotConnected ==
  (arg.fn \in SendFns /\ ret # <<>>
     /\ (arg.status # "connected" \/ ~arg.session)) =>
    /\ ret[1].transmitted = 0
    /\ ret[1].errors = 1
    /\ ~ret[1].threw
    /\ ret[1].status = arg.status
    /\ ret[1].session = arg.session

\* sendRealtimeInput has returned from a call with two chunks on a client
\* whose status is 'connected' and whose session is not yet set.
C20_Witness ==
  /\ arg.fn = "sendRealtimeInput"
  /\ arg.status = "connected"
  /\ ~arg.session
  /\ arg.n = 2
  /\ ret # <<>>

\* C21: a segment whose send was rejected because the client of its target
\* channel is not connected stays in the queue, to be sent again after the
\* next connect.
C21_RejectedStaysQueued ==
  \A i \in 1..Len(sentLog) :
    ~sentLog[i].delivered => sentLog[i].sid \in QueuedSids

\* C22: the five channel clients are connected as a unit: at any time
\* between the calls of connect() and disconnect() either all five have the
\* status 'connected' or none has.
C22_ConnectedAsUnit ==
  \/ \A c \in Channels : status[c] = "connected"
  \/ \A c \in Channels : status[c] # "connected"

\* C23: one call of GenAILiveClient.connect makes at most two upstream
\* attempts, the second only after a first that failed as unavailable; when
\* the retry fails or the first failure is of another kind it returns
\* false with the status 'disconnected' and one 'error' event emitted; it
\* returns true only with the status 'connected'.
C23_ConnectRetry ==
  (arg.fn = "connect" /\ ret # <<>>) =>
    /\ ret[1].attempts <= 2
    /\ ret[1].attempts = 2 => arg.first = "unavailable"
    /\ (arg.status = "disconnected"
          /\ (arg.first = "failed"
                \/ (arg.first = "unavailable" /\ arg.second # "ok"))) =>
         /\ ~ret[1].returned
         /\ ret[1].status = "disconnected"
         /\ ret[1].errors = 1
    /\ ret[1].returned => ret[1].status = "connected"

\* connect has returned after a first attempt that failed as unavailable
\* and a retry that failed too.
C23_Witness ==
  /\ arg.fn = "connect"
  /\ arg.status = "disconnected"
  /\ arg.first = "unavailable"
  /\ arg.second = "failed"
  /\ ret # <<>>
  /\ ret[1].attempts = 2

\* C24: stop() of the main queue, addPCM16 and the scheduling passes leave
\* the ambient pad as it is: every step that changes the pad's gain node,
\* filter, oscillators, ramp or teardown timers leaves the main queue, its
\* sources, clock and timers unchanged.
C24_PadUntouched ==
  [][padVars' # padVars => schedVars' = schedVars]_vars

\* The main queue has been stopped with a buffer committed, while the pad
\* exists with its volume set and its teardown pending.
C24_Witness ==
  /\ staleEnded > 0
  /\ ~isPlaying
  /\ padGain /\ padOscillators > 0 /\ padRamp > 0
  /\ padTimers > 0

\* A step in which scheduleNextBuffer runs its loop: from addPCM16 when
\* playback starts, or from one of its timers while playing.
PassRuns ==
  \/ ~isPlaying /\ \E n \in ChunkSizes : AddPCM16(n)
  \/ isPlaying /\ (CheckTimerFires \/ OrphanTimerFires)

\* C25: every buffer is committed with a start time that is not before the
\* output clock at the commit, and only while scheduledTime is less than
\* 0.2 s ahead of the clock; when a scheduling pass ends the pending queue
\* is empty or scheduledTime is at least 0.2 s ahead of the clock.
C25_CommitWindow ==
  [][/\ \A s \in activeSources' \ activeSources :
          s.start >= now /\ s.start < now + SCHEDULE_AHEAD_TIME
     /\ PassRuns =>
          (audioQueue' = <<>> \/ scheduledTime' >= now + SCHEDULE_AHEAD_TIME)]_vars

\* A pass has committed a buffer at a start time after the construction
\* and ended with the window full and a buffer left in the queue.
C25_Witness ==
  /\ \E s \in activeSources : s.start >= CheckInterval
  /\ audioQueue # <<>>
  /\ scheduledTime >= now + SCHEDULE_AHEAD_TIME

\* C26: while the scheduler is Playing with buffers in the pending queue, a
\* scheduling pass is pending: one of the timers of scheduleNextBuffer is
\* set, so the buffers will be committed.
C26_PassArmed ==
  (isPlaying /\ audioQueue # <<>>) => (checkArmed \/ orphanTimers > 0)

\* C27: a Playing scheduler that gets no further chunk becomes Idle when
\* its last committed buffer has ended: while it is Playing, a buffer is
\* pending or rendering, or the ended event of a halted source is still to
\* come, so that a completion callback will run and find it empty.
C27_PlayingEnds ==
  isPlaying => (audioQueue # <<>> \/ activeSources # {} \/ staleEnded > 0)

\* C28: on every transition from Idle to Playing scheduledTime is reset to
\* the output clock plus the initial buffer lead of 0.1 s: a buffer
\* committed in the step of the transition starts no earlier than 0.1 s
\* after it.
C28_InitialLead ==
  [][(~isPlaying /\ isPlaying') =>
       \A s \in activeSources' \ activeSources :
         s.start >= now + initialBufferTime]_vars

\* The sum of the lengths of the buffers of q from position i on.
RECURSIVE TotalLen(_, _)
TotalLen(q, i) == IF i > Len(q) THEN 0 ELSE q[i].len + TotalLen(q, i + 1)

HasBlankLine(t) ==
  \E i, j \in 1..Len(t) :
    /\ i < j
    /\ t[i] = NL /\ t[j] = NL
    /\ \A k \in (i + 1)..(j - 1) : t[k] = " "

\* C30: segments are split at blank lines only: a text whose lines are
\* separated by single newlines, with no blank line, yields at most one
\* segment.
C30_BlankLineSplit ==
  (arg.fn = "segmentText" /\ ret # <<>> /\ ~HasBlankLine(arg.text)) =>
    Len(ret[1]) <= 1

\* The speaker a prefix token names.
PrefixSpeaker(tok) ==
  CASE tok = "Male 1:" -> "Male 1"
    [] tok = "Male 2:" -> "Male 2"
    [] tok = "Female 1:" -> "Female 1"
    [] tok = "Female 2:" -> "Female 2"
    [] OTHER -> "default"

\* C31: a segment whose raw text starts with a speaker prefix is sent to
\* the client of that speaker and to no other, its text being the raw text
\* without the prefix, trimmed; a segment without such a prefix is sent to
\* the default client only, its text being the raw text; and no text that
\* is dispatched is empty or whitespace only.
C31_SpeakerRouting ==
  (arg.fn = "dispatch" /\ ret # <<>>) =>
    LET t == arg.rawText
        r == ret[1]
        named == PrefixSpeaker(Head(t)) # "default"
    IN /\ r.textToSend = IF named THEN Trim(Tail(t)) ELSE t
       /\ arg.style = "natural" => r.scriptedText = r.textToSend
       /\ ~r.skipped =>
            /\ r.clients = {PrefixSpeaker(Head(t))}
            /\ \E i \in 1..Len(r.scriptedText) : ~IsSpace(r.scriptedText[i])
       /\ r.skipped => r.clients = {}

\* A segment with the prefix 'Female 2:' and a further prefix inside its
\* text has been sent to the Female 2 client.
C31_Witness ==
  /\ arg.fn = "dispatch"
  /\ Head(arg.rawText) = "Female 2:"
  /\ ret # <<>>
  /\ ret[1].clients = {"Female 2"}
  /\ ret[1].textToSend = <<"Hello", " ", "Male 1:">>

\* C32: a loop leaves the waits of a dispatched segment, for the insert,
\* the next dispatch or its end, only in a step in which it reads a
\* duration below the pacing threshold of 0.2 s: the next segment is not
\* dispatched while the readings since the arrival wait are at or above it.
C32_PacingThreshold ==
  [][\A l \in 1..MaxLoops :
       (loops[l].pc \in {"arrival", "pipeline"} /\ loops'[l] # loops[l]
          /\ loops'[l].pc # "pipeline")
         => getAudioStreamerState.duration < sampleRate \div 5]_vars

\* A loop is in the pipelining wait with 0.2 s or more of audio buffered
\* while the next segment is in the queue.
C32_Witness ==
  /\ queueRef # <<>>
  /\ getAudioStreamerState.duration >= sampleRate \div 5
  /\ \E l \in 1..MaxLoops : loops[l].pc = "pipeline"

\* C33: every push is followed by an attempt to start the consumer loop,
\* and a running loop takes up what is pushed: while the ingestion runs
\* connected and the default client is connected, a loop is running
\* whenever the queue is not empty, so every pushed segment is dispatched
\* or skipped in the end and the queue empties.
C33_QueueServed ==
  (effectConnected /\ status["default"] = "connected" /\ queueRef # <<>>)
    => Running # {}

\* C34: an arrival wait that ends before its 15 s timeout ends after audio
\* answering its own segment was enqueued.
C34_ArrivalOwnAudio ==
  [][\A l \in 1..MaxLoops :
       (loops[l].pc = "arrival" /\ loops'[l] # loops[l]
          /\ now - loops[l].waitStart < ArrivalTimeout)
         => loops[l].item.sid \in audioLog]_vars

\* C35: the translation persisted for a segment consists only of
\* transcription text the upstream emitted in answer to that segment.
C35_OwnTranscription ==
  \A i \in 1..Len(insertLog) :
    \A k \in 1..Len(insertLog[i].translated_text) :
      insertLog[i].translated_text[k] = ToString(insertLog[i].sid)

\* C36: every updateTurn for a turn id sets a translation that has the
\* translation of the updateTurn call before it, if that was for the same
\* id, as a prefix.
C36_TranslationGrows ==
  [][(lastUpdate' # lastUpdate /\ lastUpdate'.id = lastUpdate.id)
       => IsPrefix(lastUpdate.translation, lastUpdate'.translation)]_vars

\* C37: within one session a transcript record id gets a turn, and its
\* segments are pushed, at most once.
C37_RecordOnce ==
  \A i, j \in 1..Len(turnLog) : turnLog[i] = turnLog[j] => i = j

\* C38: after disconnect() has returned, and until connect() is called
\* again, the client is 'disconnected' and holds no session.
C38_DisconnectHolds ==
  \A c \in Channels : closed[c] => (status[c] = "disconnected" /\ ~clientSession[c])

\* C39: the pad method called last wins: once no teardown is pending, the
\* pad exists with its oscillators if startPad was called last, and does
\* not exist if stopPad was.
C39_LastCommandWins ==
  padTimers = 0 =>
    /\ lastPadCommand = "start" => (padGain /\ padOscillators > 0)
    /\ lastPadCommand = "stop" => ~padGain

====
